---- MODULE Spec2Model ----
(***************************************************************************)
(* Teen English Learning API (src/main.py, src/schemas.py).                *)
(*                                                                         *)
(* Strings are sequences of one-character strings.  Floats that the code   *)
(* computes as quotients are kept as exact fractions [n |-> _, d |-> _] in *)
(* lowest terms; rounded floats are kept as an integer number of units     *)
(* (hundredths for round(x, 2), tenths for round(x, 1)).                   *)
(***************************************************************************)
EXTENDS Integers, Sequences, FiniteSets, TLC

(***************************************************************************)
(* Bounds of the model.                                                    *)
(***************************************************************************)
\* longest target / transcript string drawn in SpecSim
MaxLen == 3
\* most answers in one submission drawn in SpecGrade
MaxAnswers == 7
\* most requests handled in one behaviour of Spec
MaxReq == 3

(***************************************************************************)
(* Characters and strings (Python str).                                    *)
(***************************************************************************)
UpperCase == <<"A", "B", "C", "D", "E", "F", "G", "H", "I", "J", "K", "L", "M",
               "N", "O", "P", "Q", "R", "S", "T", "U", "V", "W", "X", "Y", "Z">>

LowerCase == <<"a", "b", "c", "d", "e", "f", "g", "h", "i", "j", "k", "l", "m",
               "n", "o", "p", "q", "r", "s", "t", "u", "v", "w", "x", "y", "z">>

Range(s) == {s[i] : i \in DOMAIN s}

\* str.lower() on one character
LowerChar(c) ==
    IF \E i \in DOMAIN UpperCase : UpperCase[i] = c
    THEN LowerCase[CHOOSE i \in DOMAIN UpperCase : UpperCase[i] = c]
    ELSE c

\* str.lower()
lower(s) == [i \in DOMAIN s |-> LowerChar(s[i])]

\* the characters str.split() and str.strip() treat as whitespace
IsSpace(c) == c \in {" ", "\t", "\n"}

\* str.islower() of a single character
islower(c) == c \in Range(LowerCase)

RECURSIVE lstrip(_)
lstrip(s) ==
    IF s # <<>> /\ IsSpace(Head(s)) THEN lstrip(Tail(s)) ELSE s

RECURSIVE rstrip(_)
rstrip(s) ==
    IF s # <<>> /\ IsSpace(s[Len(s)]) THEN rstrip(SubSeq(s, 1, Len(s) - 1)) ELSE s

\* str.strip()
strip(s) == rstrip(lstrip(s))

\* sub in s
Contains(s, sub) ==
    \E i \in 1..(Len(s) - Len(sub) + 1) : SubSeq(s, i, i + Len(sub) - 1) = sub

\* s.endswith(tuple of one-character suffixes)
endswith(s, suffixes) == s # <<>> /\ s[Len(s)] \in suffixes

\* str.split(): the maximal runs of non-whitespace characters, left to right.
\* cur is the token being read, acc the tokens already closed.
RECURSIVE SplitFrom(_, _, _)
SplitFrom(s, cur, acc) ==
    IF s = <<>>
    THEN IF cur = <<>> THEN acc ELSE Append(acc, cur)
    ELSE IF IsSpace(Head(s))
         THEN SplitFrom(Tail(s), <<>>, IF cur = <<>> THEN acc ELSE Append(acc, cur))
         ELSE SplitFrom(Tail(s), Append(cur, Head(s)), acc)

split(s) == SplitFrom(s, <<>>, <<>>)

\* set(s.lower().split())
TokenSet(s) == Range(split(lower(s)))

(***************************************************************************)
(* Exact fractions standing for the code's float quotients.                *)
(***************************************************************************)
RECURSIVE Gcd(_, _)
Gcd(a, b) == IF b = 0 THEN a ELSE Gcd(b, a % b)

\* n / d with d > 0 and n >= 0, in lowest terms
Frac(n, d) == LET g == Gcd(n, d) IN [n |-> n \div g, d |-> d \div g]

Zero == Frac(0, 1)

FracAdd(x, y) == Frac(x.n * y.d + y.n * x.d, x.d * y.d)

FracLess(x, y) == x.n * y.d < y.n * x.d

FracLeq(x, y) == x.n * y.d <= y.n * x.d

\* round(x, k) as an integer number of units of 10^-k, scale = 10^k.
\* Python rounds to the nearest unit and an exact tie to the even one.
Round(x, scale) ==
    LET q == (x.n * scale) \div x.d
        r2 == 2 * ((x.n * scale) % x.d)
    IN  IF r2 < x.d THEN q
        ELSE IF r2 > x.d THEN q + 1
        ELSE IF q % 2 = 0 THEN q ELSE q + 1

(***************************************************************************)
(* POST /tutor/pronunciation: similarity and advice.                       *)
(***************************************************************************)
\* Jaccard over token sets that divides by the target's size only
SimilarityOverTarget(target, transcript) ==
    LET target_tokens == TokenSet(target)
        said_tokens == TokenSet(transcript)
    IN  IF target_tokens = {}
        THEN Zero
        ELSE Frac(Cardinality(target_tokens \cap said_tokens),
                  Cardinality(target_tokens))

\* Jaccard that reports 1.0 for an empty target
SimilarityEmptyIsOne(target, transcript) ==
    LET target_tokens == TokenSet(target)
        said_tokens == TokenSet(transcript)
    IN  IF target_tokens = {}
        THEN Frac(1, 1)
        ELSE Frac(Cardinality(target_tokens \cap said_tokens),
                  Cardinality(target_tokens \cup said_tokens))

Similarity(target, transcript) ==
    LET target_tokens == TokenSet(target)
        said_tokens == TokenSet(transcript)
    IN  IF target_tokens = {}
        THEN Zero
        ELSE Frac(Cardinality(target_tokens \cap said_tokens),
                  Cardinality(target_tokens \cup said_tokens))

SlowDownTip == "Slow down and speak each word clearly."
EndingSoundsTip == "Pay attention to ending sounds like -s, -ed."
GreatJobTip == "Great job! Try adding natural intonation."

\* the threshold 0.6
SimThreshold == Frac(6, 10)

Advice(sim) ==
    IF FracLess(sim, SimThreshold)
    THEN <<SlowDownTip, EndingSoundsTip>>
    ELSE <<GreatJobTip>>

(***************************************************************************)
(* POST /lessons/activity/submit: score and feedback.                      *)
(* An answer value is a Python value: a str or None.                       *)
(***************************************************************************)
StrVal(s) == [t |-> "str", v |-> s]

NoneVal == [t |-> "none", v |-> <<>>]

\* str(v)
Str(v) == IF v.t = "none" THEN <<"N", "o", "n", "e">> ELSE v.v

\* sum(1 for v in answers.values() if str(v).strip())
RECURSIVE NonEmpty(_)
NonEmpty(answers) ==
    IF answers = <<>> THEN 0
    ELSE (IF strip(Str(Head(answers))) # <<>> THEN 1 ELSE 0) + NonEmpty(Tail(answers))

Max(a, b) == IF a >= b THEN a ELSE b

\* the percentage numerator taken as the score, never divided by the total
ScoreUndivided(answers) == Frac(NonEmpty(answers) * 100, 1)

\* (non_empty / max(len(answers), 1)) * 100
Score(answers) == Frac(NonEmpty(answers) * 100, Max(Len(answers), 1))

ReviewMsg == "Let's review key vocabulary and try again."
NiceWorkMsg == "Nice work! A few small mistakes to fix."
ExcellentMsg == "Excellent! You're mastering this topic."

\* bands tested independently (if / if / else instead of if / elif / else)
FeedbackNoElif(score) ==
    (IF FracLess(score, Frac(60, 1)) THEN <<ReviewMsg>> ELSE <<>>)
    \o (IF FracLess(score, Frac(85, 1)) THEN <<NiceWorkMsg>> ELSE <<ExcellentMsg>>)

Feedback(score) ==
    IF FracLess(score, Frac(60, 1)) THEN <<ReviewMsg>>
    ELSE IF FracLess(score, Frac(85, 1)) THEN <<NiceWorkMsg>>
    ELSE <<ExcellentMsg>>

(***************************************************************************)
(* POST /tutor/chat: grammar hints and reply.                              *)
(***************************************************************************)
AgreementTip == "Subject-verb agreement: use 'I am', 'she goes', 'they were'."
CapitalTip == "Start sentences with a capital letter."
PeriodTip == "End sentences with a period or question mark."

BadPhrases == { <<"i", " ", "i", "s">>,
                <<"s", "h", "e", " ", "g", "o">>,
                <<"h", "e", " ", "g", "o">>,
                <<"t", "h", "e", "y", " ", "w", "a", "s">> }

Grammar(user_text) ==
    (IF \E w \in BadPhrases : Contains(lower(user_text), w)
     THEN <<AgreementTip>> ELSE <<>>)
    \o (IF user_text # <<>> /\ islower(user_text[1]) THEN <<CapitalTip>> ELSE <<>>)
    \o (IF ~endswith(user_text, {".", "!", "?"}) THEN <<PeriodTip>> ELSE <<>>)

FavoriteReply == "Cool! Tell me more about your favorites. Why do you like them?"
SchoolReply == "School can be fun and challenging. What's your best subject and why?"
DefaultReply == "Thanks for sharing! Can you add 1-2 more details in another sentence?"

Reply(user_text) ==
    IF Contains(lower(user_text), <<"f", "a", "v", "o", "r", "i", "t", "e">>)
    THEN FavoriteReply
    ELSE IF Contains(lower(user_text), <<"s", "c", "h", "o", "o", "l">>)
         THEN SchoolReply
         ELSE DefaultReply

(***************************************************************************)
(* Record schemas (src/schemas.py) and request payloads.                   *)
(***************************************************************************)
\* Optional[str] = None
None == "<None>"

StudentIds == {"s1", "s2"}

\* Student.age: Field(..., ge=10, le=15) with the upper bound left out
StudentValidNoUpper(student) == student.age >= 10

\* Student.age: Field(..., ge=10, le=15)
StudentValid(student) == student.age >= 10 /\ student.age <= 15

\* ActivityResult.score: Field(..., ge=0, le=100)
ActivityResultValid(doc) == FracLeq(Zero, doc.score) /\ FracLeq(doc.score, Frac(100, 1))

\* request bodies the service is driven with
StudentPayloads ==
    [name : {"Ana"}, age : {9, 10, 15, 16}, level : {"A2"}, guardian_email : {None}]

ChatTexts == { <<" ", "i", " ", "i", "s">>,
               <<"S", "c", "h", "o", "o", "l", ".">> }

TutorRequests == [student_id : {None, "s1"}, message : ChatTexts]

PronunciationRequests ==
    [student_id : {None, "s2"},
     target : { <<"a", " ", "b">>, <<"A">> },
     transcript : { <<"a">> }]

ActivitySubmissions ==
    [student_id : StudentIds, lesson_id : {"L1"}, activity_id : {"A1"},
     answers : { <<>>, <<StrVal(<<"a">>), NoneVal, StrVal(<<" ">>)>> }]

(***************************************************************************)
(* State.                                                                  *)
(***************************************************************************)
VARIABLES
    store,      \* the document store: collection name -> documents in insertion order
    reqNo,      \* number of requests handled so far
    req,        \* the request handled last
    resp,       \* the response returned last
    calls,      \* the storage calls the last handler made, in order
    args,       \* inputs of the pure function under check (SpecSim, SpecGrade)
    result      \* its outputs

vars == <<store, reqNo, req, resp, calls, args, result>>

Collections == {"student", "chatmessage", "activityresult", "pronunciationattempt"}

NoRequest == [op |-> "none"]
NoResponse == [status |-> 0]

\* outcome of one storage call
Outcomes == {"ok", "raise"}

\* exception message carried by HTTPException(status_code=500, detail=str(e))
StorageErrorMsg == "storage error"

(***************************************************************************)
(* Persistence gateway (module database, pymongo collections).            *)
(***************************************************************************)
\* the identifier the store assigns to the next document of a collection
NewId(st, coll) == [c |-> coll, n |-> Len(st[coll]) + 1]

\* create_document(collection, record) when the insert succeeds
Insert(st, coll, doc) ==
    [st EXCEPT ![coll] = Append(@, [id |-> NewId(st, coll), doc |-> doc])]

\* a storage call as logged: what was asked, of which collection, how it ended
Call(op, coll, doc, outcome) == [op |-> op, coll |-> coll, doc |-> doc, outcome |-> outcome]

\* the store after the create calls of a handler, applied in order
RECURSIVE ApplyCalls(_, _)
ApplyCalls(st, cs) ==
    IF cs = <<>> THEN st
    ELSE ApplyCalls(IF Head(cs).op = "create" /\ Head(cs).outcome = "ok"
                    THEN Insert(st, Head(cs).coll, Head(cs).doc)
                    ELSE st,
                    Tail(cs))

\* what the log keeps of a call
Logged(cs) == [i \in DOMAIN cs |-> [op |-> cs[i].op, coll |-> cs[i].coll,
                                    outcome |-> cs[i].outcome]]

\* collection.count_documents({"student_id": sid}) ignoring the filter
CountAll(st, coll, sid) == Len(st[coll])

\* collection.count_documents({"student_id": sid})
CountDocuments(st, coll, sid) ==
    Cardinality({i \in DOMAIN st[coll] : st[coll][i].doc.student_id = sid})

\* collection.find({"student_id": sid}), consumed in order
FindDocuments(st, coll, sid) ==
    LET F[i \in 0..Len(st[coll])] ==
            IF i = 0 THEN <<>>
            ELSE IF st[coll][i].doc.student_id = sid
                 THEN Append(F[i - 1], st[coll][i])
                 ELSE F[i - 1]
    IN  F[Len(st[coll])]

(***************************************************************************)
(* POST /students                                                          *)
(***************************************************************************)
\* create_student that answers 200 with an empty id when the create raises
create_student_response_swallow(student, outcome, st) ==
    IF outcome = "ok"
    THEN [status |-> 200, body |-> [id |-> NewId(st, "student")]]
    ELSE [status |-> 200, body |-> [id |-> None]]

create_student_response(student, outcome, st) ==
    IF outcome = "ok"
    THEN [status |-> 200, body |-> [id |-> NewId(st, "student")]]
    ELSE [status |-> 500, detail |-> StorageErrorMsg]

\* request validation against the Student schema fails: the handler never runs
RejectStudent(student) ==
    /\ ~StudentValid(student)
    /\ resp' = [status |-> 422]
    /\ calls' = <<>>
    /\ store' = store

AcceptStudent(student, outcome) ==
    /\ StudentValid(student)
    /\ LET cs == <<Call("create", "student", student, outcome)>>
       IN  /\ store' = ApplyCalls(store, cs)
           /\ calls' = Logged(cs)
    /\ resp' = create_student_response(student, outcome, store)

create_student ==
    \E student \in StudentPayloads, outcome \in Outcomes :
        /\ reqNo < MaxReq
        /\ reqNo' = reqNo + 1
        /\ req' = [op |-> "create_student", payload |-> student]
        /\ (RejectStudent(student) \/ AcceptStudent(student, outcome))
        /\ UNCHANGED <<args, result>>

(***************************************************************************)
(* POST /tutor/chat                                                        *)
(***************************************************************************)
UserMessage(payload) ==
    LET user_text == strip(payload.message)
    IN  [student_id |-> payload.student_id, role |-> "user", text |-> user_text,
         corrections |-> Grammar(user_text)]

TutorMessage(payload) ==
    LET user_text == strip(payload.message)
    IN  [student_id |-> payload.student_id, role |-> "tutor",
         text |-> Reply(user_text), corrections |-> <<>>]

\* each chat record written in a try block of its own
tutor_chat_calls_independent(payload, o1, o2) ==
    << Call("create", "chatmessage", UserMessage(payload), o1),
       Call("create", "chatmessage", TutorMessage(payload), o2) >>

\* the storage calls of the try block: the second create runs only if the first
\* returned
tutor_chat_calls(payload, o1, o2) ==
    IF o1 = "raise"
    THEN << Call("create", "chatmessage", UserMessage(payload), o1) >>
    ELSE << Call("create", "chatmessage", UserMessage(payload), o1),
            Call("create", "chatmessage", TutorMessage(payload), o2) >>

Raised(cs) == \E i \in DOMAIN cs : cs[i].outcome = "raise"

\* tutor_chat without the try / except around the writes
tutor_chat_response_unguarded(payload, cs) ==
    IF Raised(cs)
    THEN [status |-> 500, detail |-> StorageErrorMsg]
    ELSE LET user_text == strip(payload.message)
         IN  [status |-> 200,
              body |-> [reply |-> Reply(user_text), tips |-> <<>>,
                        grammar_notes |-> Grammar(user_text)]]

\* what tutor_chat returns after the storage calls cs
tutor_chat_response(payload, cs) ==
    LET user_text == strip(payload.message)
    IN  [status |-> 200,
         body |-> [reply |-> Reply(user_text), tips |-> <<>>,
                   grammar_notes |-> Grammar(user_text)]]

tutor_chat ==
    \E payload \in TutorRequests, o1 \in Outcomes, o2 \in Outcomes :
        /\ reqNo < MaxReq
        /\ (o1 = "raise" => o2 = "raise")   \* the second create is not reached
        /\ reqNo' = reqNo + 1
        /\ req' = [op |-> "tutor_chat", payload |-> payload]
        /\ LET cs == tutor_chat_calls(payload, o1, o2)
           IN  /\ store' = ApplyCalls(store, cs)
               /\ calls' = Logged(cs)
               /\ resp' = tutor_chat_response(payload, cs)
        /\ UNCHANGED <<args, result>>

(***************************************************************************)
(* POST /tutor/pronunciation                                               *)
(***************************************************************************)
pronunciation_feedback_calls(payload, outcome) ==
    << Call("create", "pronunciationattempt",
            [student_id |-> payload.student_id, target |-> payload.target,
             transcript |-> payload.transcript,
             similarity |-> Similarity(payload.target, payload.transcript)],
            outcome) >>

pronunciation_feedback_response(payload, cs) ==
    LET sim == Similarity(payload.target, payload.transcript)
    IN  [status |-> 200,
         body |-> [similarity |-> Round(sim, 100), advice |-> Advice(sim)]]

pronunciation_feedback ==
    \E payload \in PronunciationRequests, outcome \in Outcomes :
        /\ reqNo < MaxReq
        /\ reqNo' = reqNo + 1
        /\ req' = [op |-> "pronunciation_feedback", payload |-> payload]
        /\ LET cs == pronunciation_feedback_calls(payload, outcome)
           IN  /\ store' = ApplyCalls(store, cs)
               /\ calls' = Logged(cs)
               /\ resp' = pronunciation_feedback_response(payload, cs)
        /\ UNCHANGED <<args, result>>

(***************************************************************************)
(* POST /lessons/activity/submit                                           *)
(***************************************************************************)
\* the record built from the raw dict, with the undivided score and no schema
submit_activity_calls_raw(payload, outcome) ==
    << Call("create", "activityresult",
            [student_id |-> payload.student_id, lesson_id |-> payload.lesson_id,
             activity_id |-> payload.activity_id,
             score |-> ScoreUndivided(payload.answers),
             details |-> [answers |-> payload.answers]],
            outcome) >>

\* ActivityResult(...) is built inside the try block: a record the schema rejects
\* raises before create_document is called, and the except clause discards it.
submit_activity_calls(payload, outcome) ==
    LET doc == [student_id |-> payload.student_id, lesson_id |-> payload.lesson_id,
                activity_id |-> payload.activity_id,
                score |-> Score(payload.answers),
                details |-> [answers |-> payload.answers]]
    IN  IF ActivityResultValid(doc)
        THEN << Call("create", "activityresult", doc, outcome) >>
        ELSE <<>>

submit_activity_response(payload, cs) ==
    LET score == Score(payload.answers)
    IN  [status |-> 200,
         body |-> [score |-> Round(score, 10), feedback |-> Feedback(score)]]

submit_activity ==
    \E payload \in ActivitySubmissions, outcome \in Outcomes :
        /\ reqNo < MaxReq
        /\ reqNo' = reqNo + 1
        /\ req' = [op |-> "submit_activity", payload |-> payload]
        /\ LET cs == submit_activity_calls(payload, outcome)
           IN  /\ store' = ApplyCalls(store, cs)
               /\ calls' = Logged(cs)
               /\ resp' = submit_activity_response(payload, cs)
        /\ UNCHANGED <<args, result>>

(***************************************************************************)
(* GET /progress/{student_id}                                              *)
(***************************************************************************)
\* o[1..3]: the three count_documents calls; o[4]: the find and its iteration.
\* A call after one that raised is not made when the raising call is a count:
\* its outcome is written "raise" as well, so that each run is drawn once.
ProgressOutcomes ==
    {o \in [1..4 -> Outcomes] :
        \A i \in 1..3 : o[i] = "raise" => \A j \in (i + 1)..4 : o[j] = "raise"}

\* the storage calls made, in order; a raising count ends the aggregation
get_progress_calls(o) ==
    LET colls == <<"activityresult", "chatmessage", "pronunciationattempt">>
        Counts[i \in 0..3] ==
            IF i = 0 THEN <<>>
            ELSE IF Raised(Counts[i - 1]) THEN Counts[i - 1]
                 ELSE Append(Counts[i - 1],
                             [op |-> "count", coll |-> colls[i], outcome |-> o[i]])
    IN  IF Raised(Counts[3]) THEN Counts[3]
        ELSE Append(Counts[3],
                    [op |-> "find", coll |-> "pronunciationattempt", outcome |-> o[4]])

RECURSIVE SumSims(_)
SumSims(docs) ==
    IF docs = <<>> THEN Zero
    ELSE FracAdd(Head(docs).doc.similarity, SumSims(Tail(docs)))

\* sum(sims) / len(sims), 0.0 for no attempts
AvgSimilarity(docs) ==
    IF docs = <<>> THEN Zero
    ELSE LET total == SumSims(docs) IN Frac(total.n, total.d * Len(docs))

\* get_progress with every exception answered by defaults instead of a 500
get_progress_response_lenient(st, student_id, o) ==
    [status |-> 200,
     body |-> [student_id |-> student_id,
               vocabulary_growth |->
                   IF o[1] = "ok" THEN CountDocuments(st, "activityresult", student_id)
                   ELSE 0,
               messages_exchanged |->
                   IF o[2] = "ok" THEN CountDocuments(st, "chatmessage", student_id)
                   ELSE 0,
               avg_pronunciation_similarity |->
                   IF o[4] = "ok"
                   THEN Round(AvgSimilarity(
                            FindDocuments(st, "pronunciationattempt", student_id)), 100)
                   ELSE 0]]

\* get_progress counting whole collections
get_progress_response_unfiltered(st, student_id, o) ==
    IF o[1] = "raise" \/ o[2] = "raise" \/ o[3] = "raise"
    THEN [status |-> 500, detail |-> StorageErrorMsg]
    ELSE [status |-> 200,
          body |-> [student_id |-> student_id,
                    vocabulary_growth |-> CountAll(st, "activityresult", student_id),
                    messages_exchanged |-> CountAll(st, "chatmessage", student_id),
                    avg_pronunciation_similarity |->
                        IF o[4] = "ok"
                        THEN Round(AvgSimilarity(
                                 FindDocuments(st, "pronunciationattempt", student_id)),
                                 100)
                        ELSE 0]]

\* the outer try answers a raising count with a 500; the inner try around the
\* find leaves avg_pron at 0.0 and the handler returns normally
get_progress_response(st, student_id, o) ==
    IF o[1] = "raise" \/ o[2] = "raise" \/ o[3] = "raise"
    THEN [status |-> 500, detail |-> StorageErrorMsg]
    ELSE [status |-> 200,
          body |-> [student_id |-> student_id,
                    vocabulary_growth |->
                        CountDocuments(st, "activityresult", student_id),
                    messages_exchanged |->
                        CountDocuments(st, "chatmessage", student_id),
                    avg_pronunciation_similarity |->
                        IF o[4] = "ok"
                        THEN Round(AvgSimilarity(
                                 FindDocuments(st, "pronunciationattempt", student_id)),
                                 100)
                        ELSE 0]]

get_progress ==
    \E student_id \in StudentIds, o \in ProgressOutcomes :
        /\ reqNo < MaxReq
        /\ reqNo' = reqNo + 1
        /\ req' = [op |-> "get_progress", payload |-> [student_id |-> student_id]]
        /\ calls' = get_progress_calls(o)
        /\ resp' = get_progress_response(store, student_id, o)
        /\ UNCHANGED <<store, args, result>>

(***************************************************************************)
(* The service.                                                            *)
(***************************************************************************)
NoArgs == [fn |-> "none"]
NoResult == [done |-> FALSE]

ServiceInit ==
    /\ store = [c \in Collections |-> <<>>]
    /\ reqNo = 0
    /\ req = NoRequest
    /\ resp = NoResponse
    /\ calls = <<>>

Init ==
    /\ ServiceInit
    /\ args = NoArgs
    /\ result = NoResult

Next ==
    \/ create_student
    \/ tutor_chat
    \/ pronunciation_feedback
    \/ submit_activity
    \/ get_progress

Spec == Init /\ [][Next]_vars

(***************************************************************************)
(* The pronunciation similarity as a pure function of two strings.         *)
(***************************************************************************)
Alphabet == {"a", "A", "b", " "}

Strings == UNION {[1..n -> Alphabet] : n \in 0..MaxLen}

SimInit ==
    /\ ServiceInit
    /\ args \in [fn : {"similarity"}, target : Strings, transcript : Strings]
    /\ result = NoResult

\* the similarity of the pair and of the pair swapped, and the advice
ComputeSimilarity ==
    /\ ~result.done
    /\ result' = [done |-> TRUE,
                  sim |-> Similarity(args.target, args.transcript),
                  swapped |-> Similarity(args.transcript, args.target),
                  advice |-> Advice(Similarity(args.target, args.transcript))]
    /\ UNCHANGED <<store, reqNo, req, resp, calls, args>>

SimNext == ComputeSimilarity

SpecSim == SimInit /\ [][SimNext]_vars

(***************************************************************************)
(* The activity grader as a pure function of the answers.                  *)
(***************************************************************************)
AnswerValues == {StrVal(<<>>), StrVal(<<" ">>), StrVal(<<"a">>), NoneVal}

AnswerLists == UNION {[1..n -> AnswerValues] : n \in 0..MaxAnswers}

GradeInit ==
    /\ ServiceInit
    /\ args \in [fn : {"grade"}, answers : AnswerLists]
    /\ result = NoResult

Grade ==
    /\ ~result.done
    /\ result' = [done |-> TRUE,
                  score |-> Score(args.answers),
                  feedback |-> Feedback(Score(args.answers))]
    /\ UNCHANGED <<store, reqNo, req, resp, calls, args>>

GradeNext == Grade

SpecGrade == GradeInit /\ [][GradeNext]_vars

(***************************************************************************)
(* Properties.                                                             *)
(***************************************************************************)
\* the step is the handling of a request to op
Handled(op) == req'.op = op /\ reqNo' = reqNo + 1

\* C1: POST /tutor/chat, /tutor/pronunciation and /lessons/activity/submit answer
\* every valid request with status 200, and with the body they return for the
\* same request when every write succeeds, whatever the storage writes did.
C1_BestEffortResponse ==
    /\ req.op = "tutor_chat" =>
           /\ resp.status = 200
           /\ resp = tutor_chat_response(req.payload,
                                         tutor_chat_calls(req.payload, "ok", "ok"))
    /\ req.op = "pronunciation_feedback" =>
           /\ resp.status = 200
           /\ resp = pronunciation_feedback_response(
                         req.payload, pronunciation_feedback_calls(req.payload, "ok"))
    /\ req.op = "submit_activity" =>
           /\ resp.status = 200
           /\ resp = submit_activity_response(req.payload,
                                              submit_activity_calls(req.payload, "ok"))

\* a chat request whose second write raised, answered normally
C1_Witness ==
    /\ req.op = "tutor_chat"
    /\ Len(calls) = 2 /\ calls[2].outcome = "raise"
    /\ resp.status = 200
    /\ Len(resp.body.grammar_notes) = 3

CountRaised(cs) == \E i \in DOMAIN cs : cs[i].op = "count" /\ cs[i].outcome = "raise"

FindRaised(cs) == \E i \in DOMAIN cs : cs[i].op = "find" /\ cs[i].outcome = "raise"

C3_CreateStudentOutcome ==
    [][(Handled("create_student") /\ StudentValid(req'.payload)) =>
          /\ Len(calls') = 1 /\ calls'[1].op = "create" /\ calls'[1].coll = "student"
          /\ \/ /\ calls'[1].outcome = "ok"
                /\ Len(store'.student) = Len(store.student) + 1
                /\ store' = [store EXCEPT !.student =
                                Append(@, store'.student[Len(store'.student)])]
                /\ store'.student[Len(store'.student)].doc = req'.payload
                /\ resp' = [status |-> 200,
                            body |-> [id |-> store'.student[Len(store'.student)].id]]
             \/ /\ calls'[1].outcome = "raise"
                /\ store' = store
                /\ resp' = [status |-> 500, detail |-> StorageErrorMsg]
      ]_vars

\* a second student was created and its id returned
C3_Witness ==
    /\ req.op = "create_student"
    /\ resp.status = 200
    /\ Len(store.student) = 2
    /\ resp.body.id = store.student[2].id
    /\ store.student[1].id # store.student[2].id

\* C4: a POST /students with an age outside [10,15] is rejected without any
\* storage call, and every Student record in the store has an age in [10,15].
C4_StudentAgeBound ==
    /\ \A i \in DOMAIN store.student :
           store.student[i].doc.age >= 10 /\ store.student[i].doc.age <= 15
    /\ (req.op = "create_student" /\ (req.payload.age < 10 \/ req.payload.age > 15)) =>
           /\ calls = <<>>
           /\ resp.status # 200

\* an age of 16 was rejected while the store holds a student of age 15
C4_Witness ==
    /\ req.op = "create_student" /\ req.payload.age = 16
    /\ calls = <<>>
    /\ \E i \in DOMAIN store.student : store.student[i].doc.age = 15

\* C5: every ActivityResult record in the store has a score in [0,100], whatever
\* answer mappings were submitted, the empty one included.
C5_ActivityScoreBound ==
    \A i \in DOMAIN store.activityresult :
        LET score == store.activityresult[i].doc.score
        IN  score.n >= 0 /\ score.d > 0 /\ score.n <= 100 * score.d

\* records of an empty submission (score 0) and of a partly answered one
C5_Witness ==
    /\ \E i \in DOMAIN store.activityresult :
           /\ store.activityresult[i].doc.details.answers = <<>>
           /\ store.activityresult[i].doc.score = Zero
    /\ \E i \in DOMAIN store.activityresult :
           /\ Len(store.activityresult[i].doc.details.answers) = 3
           /\ store.activityresult[i].doc.score = Frac(200, 3)

One == Frac(1, 1)

\* C6: the similarity of (target, transcript) equals that of (transcript, target)
\* for every pair of strings, pairs with an empty token set included.
C6_SimilaritySymmetric ==
    result.done => result.sim = result.swapped

\* the target has no token and the transcript has some: the two directions take
\* different branches of the code
C6_Witness ==
    /\ result.done
    /\ TokenSet(args.target) = {}
    /\ TokenSet(args.transcript) # {}
    /\ result.swapped = Zero

\* C7 as stated: the similarity is 1.0 whenever the two case-folded token sets
\* are identical, and 0.0 whenever they share no token and the target has one.
C7_IdenticalIsOne ==
    result.done =>
        /\ TokenSet(args.target) = TokenSet(args.transcript) => result.sim = One
        /\ (TokenSet(args.target) \cap TokenSet(args.transcript) = {}
            /\ TokenSet(args.target) # {}) => result.sim = Zero

\* C7 amended: the similarity is 1.0 whenever the two case-folded token sets are
\* identical and not empty, and 0.0 whenever they share no token, which includes
\* every target without tokens (two empty token sets give 0.0).
C7_IdenticalNonEmptyIsOne ==
    result.done =>
        /\ (TokenSet(args.target) = TokenSet(args.transcript)
            /\ TokenSet(args.target) # {}) => result.sim = One
        /\ TokenSet(args.target) \cap TokenSet(args.transcript) = {}
               => result.sim = Zero

\* different strings with the same two case-folded tokens
C7_Witness ==
    /\ result.done
    /\ args.target # args.transcript
    /\ lower(args.target) # lower(args.transcript)
    /\ Cardinality(TokenSet(args.target)) = 2
    /\ TokenSet(args.target) = TokenSet(args.transcript)
    /\ result.sim = One
    /\ result.advice = <<GreatJobTip>>

\* C8: for every score the grader computes the feedback list has exactly one
\* entry: the review string iff score < 60, the 'Nice work' string iff
\* 60 <= score < 85, the 'Excellent' string iff score >= 85.
C8_BandsPartition ==
    result.done =>
        LET n == NonEmpty(args.answers)
            total == Max(Len(args.answers), 1)
        IN  /\ result.score = Frac(100 * n, total)
            /\ Len(result.feedback) = 1
            /\ result.feedback[1] = ReviewMsg <=> 100 * n < 60 * total
            /\ result.feedback[1] = NiceWorkMsg <=>
                   (100 * n >= 60 * total /\ 100 * n < 85 * total)
            /\ result.feedback[1] = ExcellentMsg <=> 100 * n >= 85 * total

\* a score of exactly 60 (3 of 5) falls in the middle band
C8_Witness ==
    /\ result.done
    /\ Len(args.answers) = 5
    /\ result.score = Frac(60, 1)
    /\ result.feedback = <<NiceWorkMsg>>

\* the number of records of a collection that reference student s
RECURSIVE Referencing(_, _)
Referencing(docs, s) ==
    IF docs = <<>> THEN 0
    ELSE (IF Head(docs).doc.student_id = s THEN 1 ELSE 0) + Referencing(Tail(docs), s)

\* C9: a successful GET /progress/{s} returns the number of stored ActivityResult
\* records and of stored ChatMessage records that reference s; no step lowers
\* either number for any s, so two successive reads never see a decrease; and
\* the read leaves the store unchanged.
C9_ProgressCounts ==
    /\ [](   (req.op = "get_progress" /\ resp.status = 200) =>
                 /\ resp.body.vocabulary_growth =
                        Referencing(store.activityresult, req.payload.student_id)
                 /\ resp.body.messages_exchanged =
                        Referencing(store.chatmessage, req.payload.student_id))
    /\ [][ /\ \A s \in StudentIds :
                LET before == get_progress_response(store, s, [i \in 1..4 |-> "ok"])
                    after == get_progress_response(store', s, [i \in 1..4 |-> "ok"])
                IN  /\ after.body.vocabulary_growth >= before.body.vocabulary_growth
                    /\ after.body.messages_exchanged >= before.body.messages_exchanged
           /\ Handled("get_progress") => store' = store
         ]_vars

\* a read for s1 that counts one of the two stored activity results and the two
\* chat records of one exchange
C9_Witness ==
    /\ req.op = "get_progress" /\ req.payload.student_id = "s1"
    /\ resp.status = 200
    /\ Len(store.activityresult) = 1
    /\ Len(store.chatmessage) = 2
    /\ resp.body.vocabulary_growth = 0
    /\ resp.body.messages_exchanged = 2

\* C10: a POST /tutor/chat appends to the chat records nothing, its user record,
\* or its user record followed by its tutor record; the tutor write is not
\* attempted after the user write raised; a request can leave its user record
\* stored without the tutor record (C10_Witness).
C10_ChatWriteOrder ==
    [][Handled("tutor_chat") =>
          LET old == store.chatmessage
              new == store'.chatmessage
              added == SubSeq(new, Len(old) + 1, Len(new))
              roles == [i \in DOMAIN added |-> added[i].doc.role]
          IN  /\ Len(new) >= Len(old)
              /\ SubSeq(new, 1, Len(old)) = old
              /\ roles \in {<<>>, <<"user">>, <<"user", "tutor">>}
              /\ \A i \in DOMAIN added :
                     added[i].doc = IF roles[i] = "user"
                                    THEN UserMessage(req'.payload)
                                    ELSE TutorMessage(req'.payload)
              /\ Len(calls') \in {1, 2}
              /\ calls'[1].outcome = "raise" => Len(calls') = 1
              /\ Len(added) = Cardinality({i \in DOMAIN calls' : calls'[i].outcome = "ok"})
      ]_vars

\* the last chat record is a user record whose tutor record was never stored
C10_Witness ==
    /\ req.op = "tutor_chat"
    /\ Len(calls) = 2 /\ calls[1].outcome = "ok" /\ calls[2].outcome = "raise"
    /\ Len(store.chatmessage) = 3
    /\ store.chatmessage[3].doc.role = "user"
    /\ store.chatmessage[2].doc.role = "tutor"

====
